---- MODULE Spec2Model ----
(***************************************************************************)
(* A model of price_monitor.py: one run of check_prices() over a product   *)
(* configuration, the two per-platform price extractors, the deal test and *)
(* the two notification channels.  Text is a sequence of characters, each  *)
(* a string (a character outside ASCII is named by its code point); an     *)
(* optional value is a sequence of length 0 (None) or 1.                   *)
(***************************************************************************)
EXTENDS Integers, Sequences, FiniteSets, TLC

VARIABLES
  config,         \* the document returned by load_config() (line 95)
  env,            \* os.environ: the five variables read at lines 60-62, 81-82
  pc,             \* where check_prices is: "products", "sources",
                  \* "send_email", "send_telegram", "done" or "crashed"
  i,              \* index of the product of the outer loop (line 98)
  j,              \* index of the source of the inner loop (line 101)
  price,          \* the local `price` of check_prices (lines 106, 108)
  response,       \* the response of the latest fetch, None if it raised
  deals,          \* the deal list (line 96)
  message,        \* the alert text (lines 131-137)
  emailCalls,     \* the calls of send_email (line 140)
  telegramCalls,  \* the calls of send_telegram (line 141)
  emailSent,      \* the mails handed to the SMTP server (line 75)
  telegramSent,   \* the messages posted to the bot API (line 89)
  attempts,       \* the sources the inner loop has taken, in order
  fetches,        \* the sources a get_price_* call was made for, in order
  exc             \* the uncaught exception that ended the run, if any

vars == <<config, env, pc, i, j, price, response, deals, message,
          emailCalls, telegramCalls, emailSent, telegramSent,
          attempts, fetches, exc>>

\* ---------------------------------------------------------------- bounds
\* Largest number of sources ("urls") configured for one product.
MaxSources == 2

\* ------------------------------------------------------- optional values
None == <<>>
Some(v) == <<v>>
IsNone(o) == o = <<>>
Get(o) == o[1]

Range(s) == {s[k] : k \in 1..Len(s)}

\* ------------------------------------------------------------------ text
Digits == {"0", "1"}
\* A character outside ASCII is written as the name of its code point.
\* The rupee sign, as a page may show it.
Rupee == "U+20B9"
\* The currency literal as the source file has it (lines 50, 99, 116, 135):
\* the three characters U+00E2 U+201A U+00B9, written out for matching and as
\* one piece of printed text.
CurrencyLiteral == <<"U+00E2", "U+201A", "U+00B9">>
CurrencyText == "U+00E2" \o "U+201A" \o "U+00B9"

DigitValue(c) == IF c = "1" THEN 1 ELSE 0

\* str.replace(c, ""): every occurrence of the character removed.
RECURSIVE Remove(_, _)
Remove(s, c) ==
  IF s = <<>> THEN <<>>
  ELSE IF Head(s) = c THEN Remove(Tail(s), c)
       ELSE <<Head(s)>> \o Remove(Tail(s), c)

\* str.lstrip / str.rstrip / str.strip on blanks.
RECURSIVE LStrip(_)
LStrip(s) == IF s # <<>> /\ Head(s) = " " THEN LStrip(Tail(s)) ELSE s

RECURSIVE RStrip(_)
RStrip(s) ==
  IF s # <<>> /\ s[Len(s)] = " " THEN RStrip(SubSeq(s, 1, Len(s) - 1)) ELSE s

Strip(s) == RStrip(LStrip(s))

\* The decimal value of a sequence of digits.
RECURSIVE DecimalValue(_)
DecimalValue(s) ==
  IF s = <<>> THEN 0
  ELSE 10 * DecimalValue(SubSeq(s, 1, Len(s) - 1)) + DigitValue(s[Len(s)])

\* float(text): the value of a non-empty run of digits; anything else over the
\* alphabet used here (empty text, an inner blank, a currency sign) raises
\* ValueError, modelled as None of the parse.
float(s) ==
  IF s # <<>> /\ \A k \in 1..Len(s) : s[k] \in Digits
  THEN Some(DecimalValue(s))
  ELSE None

\* --------------------------------------------------- results of a fetch
\* What a get_price_* call does: return a price, return None, or raise.
Returned(p) == [kind |-> "return", price |-> p, exc |-> "none"]
Raised(e) == [kind |-> "raise", price |-> None, exc |-> e]

\* A fetch either raises a network-level error or yields a response.
NetworkFailure == [ok |-> FALSE, status |-> 0, body |-> <<>>]
Response(s, b) == [ok |-> TRUE, status |-> s, body |-> b]

\* ---------------------------------------------------------------- Amazon
PriceWhole == "a-price-whole"
PriceFraction == "a-price-fraction"

\* soup.select_one("span.a-price-whole"): the first matching span, if any.
\* A page body is the sequence of its spans, [class, text].
RECURSIVE select_one(_, _)
select_one(page, class) ==
  IF page = <<>> THEN None
  ELSE IF Head(page).class = class THEN Some(Head(page))
       ELSE select_one(Tail(page), class)

\* price_element.text.replace(",", "").replace(".", "").strip()
AmazonPriceText(text) == Strip(Remove(Remove(text, ","), "."))

\* A variant that reports a missing price element as the number zero.
get_price_amazon_zero(fetch) ==
  IF ~fetch.ok THEN Raised("ConnectionError")
  ELSE LET price_element == select_one(fetch.body, PriceWhole) IN
       IF ~IsNone(price_element)
       THEN LET parsed == float(AmazonPriceText(Get(price_element).text)) IN
            IF IsNone(parsed) THEN Raised("ValueError")
            ELSE Returned(parsed)
       ELSE Returned(Some(0))

get_price_amazon(fetch) ==
  IF ~fetch.ok THEN Raised("ConnectionError")
  ELSE LET price_element == select_one(fetch.body, PriceWhole) IN
       IF ~IsNone(price_element)
       THEN LET parsed == float(AmazonPriceText(Get(price_element).text)) IN
            IF IsNone(parsed) THEN Raised("ValueError")
            ELSE Returned(parsed)
       ELSE Returned(None)

\* -------------------------------------------------------------- Flipkart
PriceChars == Digits \cup {","}

\* The longest prefix of s made of digits and commas: the group ([\d,]+).
RECURSIVE NumeralPrefix(_)
NumeralPrefix(s) ==
  IF s # <<>> /\ Head(s) \in PriceChars
  THEN <<Head(s)>> \o NumeralPrefix(Tail(s))
  ELSE <<>>

\* s begins with the characters of prefix.
StartsWith(s, prefix) ==
  Len(s) >= Len(prefix) /\ SubSeq(s, 1, Len(prefix)) = prefix

\* What follows the first n characters of s.
Drop(s, n) == SubSeq(s, n + 1, Len(s))

\* re.search(CurrencyLiteral + r"([\d,]+)", text): group 1 of the leftmost match, if any.
RECURSIVE re_search(_)
re_search(text) ==
  IF text = <<>> THEN None
  ELSE IF StartsWith(text, CurrencyLiteral)
            /\ NumeralPrefix(Drop(text, Len(CurrencyLiteral))) # <<>>
       THEN Some(NumeralPrefix(Drop(text, Len(CurrencyLiteral))))
       ELSE re_search(Tail(text))

StatusOK == 200

get_price_flipkart(fetch) ==
  IF ~fetch.ok THEN Raised("ConnectionError")
  ELSE IF fetch.status # StatusOK THEN Returned(None)
  ELSE LET match == re_search(fetch.body) IN
       IF ~IsNone(match)
       THEN LET parsed == float(Remove(Get(match), ",")) IN
            IF IsNone(parsed) THEN Raised("ValueError")
            ELSE Returned(parsed)
       ELSE Returned(None)

\* --------------------------------------------------------- configuration
Amazon == "amazon"
Flipkart == "flipkart"
Platforms == {Amazon, Flipkart, "ebay"}
ProductNames == <<"phone", "laptop">>
Targets == {0, 1}

SeqsUpTo(S, n) == UNION {[1..k -> S] : k \in 0..n}

Url(name, platform, k) ==
  "https://" \o platform \o "/" \o name \o "/" \o ToString(k)

\* The document load_config() returns: products in order, each with a name, a
\* target price and its sources in order.
Product(name, target, plats) ==
  [name |-> name, target_price |-> target,
   urls |-> [k \in 1..Len(plats) |->
               [platform |-> plats[k], url |-> Url(name, plats[k], k)]]]

\* The configurations explored: up to Len(ProductNames) products, each with
\* its own target price, all listing the same platforms in the same order.
Configs(maxSources) ==
  {[products |-> [k \in 1..Len(targets) |->
                    Product(ProductNames[k], targets[k], plats)]] :
     targets \in SeqsUpTo(Targets, Len(ProductNames)),
     plats \in SeqsUpTo(Platforms, maxSources)}

\* ----------------------------------------------------------- environment
EnvNames == {"SENDER_EMAIL", "SENDER_PASSWORD", "RECIPIENT_EMAIL",
             "TELEGRAM_BOT_TOKEN", "TELEGRAM_CHAT_ID"}
EmailNames == {"SENDER_EMAIL", "SENDER_PASSWORD", "RECIPIENT_EMAIL"}
TelegramNames == {"TELEGRAM_BOT_TOKEN", "TELEGRAM_CHAT_ID"}

\* os.environ.get(name): None when the variable is unset, else its value.
EnvValue(name) == "value-of-" \o name
Envs == {[n \in EnvNames |-> IF n \in set THEN Some(EnvValue(n)) ELSE None] :
           set \in SUBSET EnvNames}
FullEnv == [n \in EnvNames |-> Some(EnvValue(n))]
EmptyEnv == [n \in EnvNames |-> None]

\* Python truthiness of os.environ.get(name): set and not the empty string.
Truthy(o) == ~IsNone(o) /\ Get(o) # ""

\* all([sender, password, recipient]) / all([bot_token, chat_id])
EmailConfigured(e) == \A n \in EmailNames : Truthy(e[n])
TelegramConfigured(e) == \A n \in TelegramNames : Truthy(e[n])

\* ------------------------------------------------------------ the pages
\* Amazon page bodies: the spans of the page, in document order.
Span(class, text) == [class |-> class, text |-> text]
AmazonTexts ==
  { <<"1">>, <<"0">>, <<"1", ",", "0">>, <<"1", "1", ".">>,
    <<" ", "1", " ">>, <<>>, <<",">>, <<Rupee, "1">> }
AmazonBodies ==
  { <<>>, <<Span(PriceFraction, <<"1">>)>> }
  \cup { <<Span(PriceWhole, t)>> : t \in AmazonTexts }
  \cup { <<Span(PriceFraction, <<"0">>), Span(PriceWhole, <<"1">>),
           Span(PriceWhole, <<"0">>)>> }

\* Flipkart page bodies: the raw text of the page.
FlipkartBodies ==
  { <<>>, <<"1">>, <<Rupee, "1">>, <<Rupee, "0">>,
    <<"U+00E2", "U+201A", "1">>,
    CurrencyLiteral, CurrencyLiteral \o <<".">>,
    CurrencyLiteral \o <<"0">>, CurrencyLiteral \o <<"1">>,
    CurrencyLiteral \o <<"1", ",", "0">>,
    CurrencyLiteral \o <<",">>,
    CurrencyLiteral \o <<" ">> \o CurrencyLiteral \o <<"1", "1">>,
    CurrencyLiteral \o <<"1", " ">> \o CurrencyLiteral \o <<"0">> }

Statuses == {StatusOK, 503}

AmazonFetches ==
  {NetworkFailure} \cup {Response(s, b) : s \in Statuses, b \in AmazonBodies}
FlipkartFetches ==
  {NetworkFailure} \cup {Response(s, b) : s \in Statuses, b \in FlipkartBodies}

\* ------------------------------------------------------------- the deals
\* A variant of the deal test with a strict comparison.
IsDealStrict(p, target) == ~IsNone(p) /\ Get(p) < target

\* Line 115: the deal test on an extracted price.
IsDeal(p, target) == ~IsNone(p) /\ Get(p) <= target

\* Lines 118-124: the record appended for a deal.
DealRecord(product, source, p) ==
  [name |-> product.name, platform |-> source.platform, price |-> Get(p),
   target |-> product.target_price, url |-> source.url]

\* str() of a float with an integral value, and of an int of the config.
FloatStr(n) == ToString(n) \o ".0"
IntStr(n) == ToString(n)

\* Lines 131-137: the alert text, as its lines, each line as its pieces.
RECURSIVE DealLines(_)
DealLines(ds) ==
  IF ds = <<>> THEN <<>>
  ELSE LET deal == Head(ds) IN
       << <<deal.name>>,
          <<"  ", deal.platform, ": ", CurrencyText, FloatStr(deal.price),
            " (Target: ", CurrencyText, IntStr(deal.target), ")">>,
          <<"  ", deal.url>>,
          <<>> >> \o DealLines(Tail(ds))

\* Line 131: the first line of the alert, as the source file has it: the four
\* characters U+00F0 U+0178 U+201D U+00A5, then " Deal Alert!".
Header == "U+00F0" \o "U+0178" \o "U+201D" \o "U+00A5" \o " Deal Alert!"

FormatMessage(ds) == << <<Header>>, <<>> >> \o DealLines(ds)

Subject == "Deal Alert! Price dropped!"

\* ---------------------------------------------------------- check_prices
Products == config.products
Product_i == Products[i]
Sources == Product_i.urls
Source_j == Sources[j]

\* Lines 95-96 done: the configuration is loaded and the deal list is empty.
InitWith(configs, envs) ==
  /\ config \in configs
  /\ env \in envs
  /\ pc = "products"
  /\ i = 1
  /\ j = 1
  /\ price = None
  /\ response = None
  /\ deals = <<>>
  /\ message = <<>>
  /\ emailCalls = <<>>
  /\ telegramCalls = <<>>
  /\ emailSent = <<>>
  /\ telegramSent = <<>>
  /\ attempts = <<>>
  /\ fetches = <<>>
  /\ exc = None

Init == InitWith(Configs(MaxSources), {FullEnv, EmptyEnv})

\* Lines 98-99: the outer loop takes the next product.
NextProduct ==
  /\ pc = "products"
  /\ i <= Len(Products)
  /\ pc' = "sources"
  /\ j' = 1
  /\ UNCHANGED <<config, env, i, price, response, deals, message, emailCalls,
                 telegramCalls, emailSent, telegramSent, attempts, fetches, exc>>

\* Lines 113-127 after a get_price_* call made through function fn: an
\* exception leaves check_prices; a returned price is tested against the target.
Evaluate(fn, fetch, result) ==
  /\ attempts' = Append(attempts, <<i, j>>)
  /\ fetches' = Append(fetches, <<i, j>>)
  /\ response' = IF fetch.ok THEN Some(fetch) ELSE None
  /\ IF result.kind = "raise"
     THEN /\ pc' = "crashed"
          /\ exc' = Some([type |-> result.exc, at |-> fn])
          /\ UNCHANGED <<price, deals, j>>
     ELSE /\ price' = result.price
          /\ deals' = IF IsDeal(result.price, Product_i.target_price)
                      THEN Append(deals, DealRecord(Product_i, Source_j,
                                                    result.price))
                      ELSE deals
          /\ j' = j + 1
          /\ UNCHANGED <<pc, exc>>
  /\ UNCHANGED <<config, env, i, message, emailCalls, telegramCalls,
                 emailSent, telegramSent>>

\* Lines 105-106: an Amazon source.
SourceAmazon ==
  /\ pc = "sources"
  /\ j <= Len(Sources)
  /\ Source_j.platform = Amazon
  /\ \E fetch \in AmazonFetches :
       Evaluate("get_price_amazon", fetch, get_price_amazon(fetch))

\* Lines 107-108: a Flipkart source.
SourceFlipkart ==
  /\ pc = "sources"
  /\ j <= Len(Sources)
  /\ Source_j.platform = Flipkart
  /\ \E fetch \in FlipkartFetches :
       Evaluate("get_price_flipkart", fetch, get_price_flipkart(fetch))

\* A variant that leaves the inner loop (break) on an unknown platform.
SourceUnknownBreak ==
  /\ pc = "sources"
  /\ j <= Len(Sources)
  /\ Source_j.platform \notin {Amazon, Flipkart}
  /\ attempts' = Append(attempts, <<i, j>>)
  /\ j' = Len(Sources) + 1
  /\ UNCHANGED <<config, env, pc, i, price, response, deals, message,
                 emailCalls, telegramCalls, emailSent, telegramSent, fetches,
                 exc>>

\* Lines 109-111: any other platform tag; the loop continues.
SourceUnknown ==
  /\ pc = "sources"
  /\ j <= Len(Sources)
  /\ Source_j.platform \notin {Amazon, Flipkart}
  /\ attempts' = Append(attempts, <<i, j>>)
  /\ j' = j + 1
  /\ UNCHANGED <<config, env, pc, i, price, response, deals, message,
                 emailCalls, telegramCalls, emailSent, telegramSent, fetches,
                 exc>>

\* Line 101: the inner loop is exhausted; back to the outer loop.
EndSources ==
  /\ pc = "sources"
  /\ j > Len(Sources)
  /\ pc' = "products"
  /\ i' = i + 1
  /\ UNCHANGED <<config, env, j, price, response, deals, message, emailCalls,
                 telegramCalls, emailSent, telegramSent, attempts, fetches, exc>>

\* A variant that sends the alert whether or not there are deals.
AlertsAlways ==
  /\ pc = "products"
  /\ i > Len(Products)
  /\ message' = FormatMessage(deals)
  /\ pc' = "send_email"
  /\ UNCHANGED <<config, env, i, j, price, response, deals, emailCalls,
                 telegramCalls, emailSent, telegramSent, attempts, fetches, exc>>

\* Lines 130-143: after the loops, build the alert if there are deals.
Alerts ==
  /\ pc = "products"
  /\ i > Len(Products)
  /\ IF deals # <<>>
     THEN /\ message' = FormatMessage(deals)
          /\ pc' = "send_email"
     ELSE /\ pc' = "done"
          /\ UNCHANGED message
  /\ UNCHANGED <<config, env, i, j, price, response, deals, emailCalls,
                 telegramCalls, emailSent, telegramSent, attempts, fetches, exc>>

\* What a configured channel's transport does: whether the message was
\* accepted by the server, and whether the call raised.  A message that was not
\* accepted means the call raised; a message that was accepted may still be
\* followed by an exception (the exit of the `with` block at line 73 raises when
\* QUIT is not answered with 221; a response that cannot be read at line 89).
TransportOutcomes ==
  {o \in [accepted : BOOLEAN, raised : BOOLEAN] : ~o.accepted => o.raised}

\* Lines 58-76, called at line 140.  Nothing in send_email or check_prices
\* catches what the SMTP session raises.
send_email ==
  /\ pc = "send_email"
  /\ emailCalls' = Append(emailCalls, [subject |-> Subject, body |-> message])
  /\ IF ~EmailConfigured(env)
     THEN /\ pc' = "send_telegram"
          /\ UNCHANGED <<emailSent, exc>>
     ELSE \E o \in TransportOutcomes :
            /\ emailSent' = IF o.accepted
                            THEN Append(emailSent,
                                   [Subject |-> Subject,
                                    From |-> Get(env["SENDER_EMAIL"]),
                                    To |-> Get(env["RECIPIENT_EMAIL"]),
                                    body |-> message])
                            ELSE emailSent
            /\ IF o.raised
               THEN /\ pc' = "crashed"
                    /\ exc' = Some([type |-> IF o.accepted
                                             THEN "SMTPResponseException"
                                             ELSE "SMTPException",
                                    at |-> "send_email"])
               ELSE /\ pc' = "send_telegram"
                    /\ UNCHANGED exc
  /\ UNCHANGED <<config, env, i, j, price, response, deals, message,
                 telegramCalls, telegramSent, attempts, fetches>>

\* Lines 79-90, called at line 141.  requests.post either gets a response
\* (whatever its status) or raises, and nothing catches it.
send_telegram ==
  /\ pc = "send_telegram"
  /\ telegramCalls' = Append(telegramCalls, [message |-> message])
  /\ IF ~TelegramConfigured(env)
     THEN /\ pc' = "done"
          /\ UNCHANGED <<telegramSent, exc>>
     ELSE \E o \in TransportOutcomes :
            /\ telegramSent' = IF o.accepted
                               THEN Append(telegramSent,
                                      [token |-> Get(env["TELEGRAM_BOT_TOKEN"]),
                                       chat_id |-> Get(env["TELEGRAM_CHAT_ID"]),
                                       text |-> message])
                               ELSE telegramSent
            /\ IF o.raised
               THEN /\ pc' = "crashed"
                    /\ exc' = Some([type |-> "ConnectionError",
                                    at |-> "send_telegram"])
               ELSE /\ pc' = "done"
                    /\ UNCHANGED exc
  /\ UNCHANGED <<config, env, i, j, price, response, deals, message,
                 emailCalls, emailSent, attempts, fetches>>

check_prices ==
  \/ NextProduct
  \/ SourceAmazon
  \/ SourceFlipkart
  \/ SourceUnknown
  \/ EndSources
  \/ Alerts
  \/ send_email
  \/ send_telegram

Next == check_prices

Spec == Init /\ [][Next]_vars

\* The same program run under every channel configuration, for one product.
InitChannels ==
  InitWith({c \in Configs(MaxSources) : Len(c.products) = 1}, Envs)

SpecChannels == InitChannels /\ [][Next]_vars

\* ------------------------------------------------------------ properties
FetchFunctions == {"get_price_amazon", "get_price_flipkart"}
ChannelFunctions == {"send_email", "send_telegram"}

Exited == pc \in {"done", "crashed"}
RaisedIn(fns) == ~IsNone(exc) /\ Get(exc).at \in fns

\* The configured sources, <<product index, source index>>, in order.
RECURSIVE SourcesFrom(_)
SourcesFrom(p) ==
  IF p > Len(Products) THEN <<>>
  ELSE [k \in 1..Len(Products[p].urls) |-> <<p, k>>] \o SourcesFrom(p + 1)

AllSources == SourcesFrom(1)

IsPrefix(s, t) == Len(s) <= Len(t) /\ \A k \in 1..Len(s) : s[k] = t[k]

\* A step of the inner loop on a known platform whose get_price_* call returned.
PriceReturned ==
  /\ pc = "sources"
  /\ pc' = "sources"
  /\ j' = j + 1
  /\ fetches' # fetches

\* C1: when the price of an Amazon or Flipkart source has been extracted, a
\* record (of this product, source and price) is appended to the deal list if
\* and only if the price is present and at most the product's target price;
\* otherwise the list is unchanged; so every record has price <= target.
C1_DealIffAtOrBelowTarget ==
  [][PriceReturned =>
       LET target == Product_i.target_price
           qualifies == price' # None /\ Get(price') <= target
       IN /\ qualifies =>
               deals' = Append(deals,
                          [name |-> Product_i.name,
                           platform |-> Source_j.platform,
                           price |-> Get(price'), target |-> target,
                           url |-> Source_j.url])
          /\ ~qualifies => deals' = deals
          /\ \A k \in 1..Len(deals') : deals'[k].price <= deals'[k].target
    ]_vars

\* A deal at exactly the target was recorded, and the next source of the same
\* product, priced one unit above the target, was not.
C1_Witness ==
  /\ pc = "sources"
  /\ j = 3
  /\ price = Some(Product_i.target_price + 1)
  /\ Len(deals) = 1
  /\ deals[1].price = deals[1].target
  /\ fetches = <<<<i, 1>>, <<i, 2>>>>

\* C2: a network-level failure during the fetch of a source never leaves
\* check_prices as an uncaught exception.
C2_NetworkFailureNotFatal ==
  ~(pc = "crashed" /\ RaisedIn(FetchFunctions)
      /\ Get(exc).type = "ConnectionError")

\* C3: after a fetch answered with a non-success status, on either platform,
\* the extraction has returned no price (and so no deal) for that source.
C3_NonSuccessStatusIsAbsence ==
  (~IsNone(response) /\ Get(response).status # StatusOK
     /\ ~RaisedIn(FetchFunctions)) =>
     IsNone(price)

\* C4: while the deal list is empty, and so when the run ends with it empty,
\* neither send_email nor send_telegram has been called or has sent anything.
C4_NoDealsNoNotification ==
  deals = <<>> =>
     /\ emailCalls = <<>>
     /\ telegramCalls = <<>>
     /\ emailSent = <<>>
     /\ telegramSent = <<>>
     /\ pc \notin {"send_email", "send_telegram"}

\* A run over fetched sources ended normally with no deal, both channels being
\* configured.
C4_Witness ==
  /\ pc = "done"
  /\ deals = <<>>
  /\ fetches # <<>>
  /\ EmailConfigured(env)
  /\ TelegramConfigured(env)

\* The alert text has a piece equal to tok.
Contains(msg, tok) ==
  \E l \in 1..Len(msg) : \E k \in 1..Len(msg[l]) : msg[l][k] = tok

\* The loops are over and there are deals: the notification step is due.
NotificationDue == i > Len(Products) /\ deals # <<>>

\* C5: a run that found deals, with both channels fully configured, has at its
\* end called send_email and send_telegram once each with the same message,
\* which names every deal's product, platform, price and URL.
C5_BothChannelsInvoked ==
  (Exited /\ NotificationDue /\ EmailConfigured(env)
     /\ TelegramConfigured(env)) =>
     /\ emailCalls = <<[subject |-> Subject, body |-> message]>>
     /\ telegramCalls = <<[message |-> message]>>
     /\ \A k \in 1..Len(deals) :
          /\ Contains(message, deals[k].name)
          /\ Contains(message, deals[k].platform)
          /\ Contains(message, FloatStr(deals[k].price))
          /\ Contains(message, deals[k].url)

\* C6: a run that reached the notification step with a channel not configured
\* has at its end sent nothing through that channel, has called the other
\* channel, and has completed normally.
C6_MissingConfigChannelSkipped ==
  (Exited /\ NotificationDue) =>
     /\ ~EmailConfigured(env) =>
          emailSent = <<>> /\ telegramCalls # <<>> /\ pc = "done"
     /\ ~TelegramConfigured(env) =>
          telegramSent = <<>> /\ emailCalls # <<>> /\ pc = "done"

\* C7: no transport failure of a channel leaves check_prices as an uncaught
\* exception, and a run that called send_email has also called send_telegram
\* by its end.
C7_ChannelFailureIsolated ==
  /\ ~RaisedIn(ChannelFunctions)
  /\ (Exited /\ emailCalls # <<>>) => telegramCalls # <<>>

\* C8: the step on a source with an unknown platform tag fetches nothing,
\* leaves the deal list (and the last price) unchanged, raises nothing and
\* moves on to the next source of the same product.
C8_UnknownPlatformSkipped ==
  [][(pc = "sources" /\ j <= Len(Sources)
        /\ Source_j.platform \notin {Amazon, Flipkart}) =>
       /\ fetches' = fetches
       /\ deals' = deals
       /\ price' = price
       /\ exc' = exc
       /\ pc' = "sources"
       /\ i' = i
       /\ j' = j + 1
    ]_vars

\* A source with an unknown platform was skipped without a fetch, and then the
\* next source of the same product and a source of the next product were
\* fetched.
C8_Witness ==
  \E a \in Range(attempts) :
    /\ \A k \in 1..Len(fetches) : fetches[k] # a
    /\ \E f \in Range(fetches) : f = <<a[1], a[2] + 1>>
    /\ \E f \in Range(fetches) : f[1] = a[1] + 1

\* The page of a response lacks the Amazon price span / the Flipkart pattern.
LacksAmazonMarkup(body) == \A k \in 1..Len(body) : body[k].class # PriceWhole
LacksFlipkartPattern(body) ==
  \A k \in 1..Len(body) :
    ~(/\ k + 3 <= Len(body)
      /\ <<body[k], body[k + 1], body[k + 2]>> = CurrencyLiteral
      /\ body[k + 3] \in PriceChars)

\* The step fetched a page successfully and the page lacks the price markup
\* of the source's platform.
FetchedWithoutMarkup ==
  /\ pc = "sources"
  /\ fetches' # fetches
  /\ ~IsNone(response')
  /\ Get(response').status = StatusOK
  /\ IF Source_j.platform = Amazon
     THEN LacksAmazonMarkup(Get(response').body)
     ELSE LacksFlipkartPattern(Get(response').body)

\* C9: when a successfully fetched page lacks the price span (Amazon) or the
\* price pattern (Flipkart), the extraction returns None, not a number and not
\* an exception, no deal is recorded whatever the target, and the loop goes on.
C9_MissingMarkupIsAbsence ==
  [][FetchedWithoutMarkup =>
       /\ price' = None
       /\ deals' = deals
       /\ exc' = exc
       /\ pc' = "sources"
       /\ j' = j + 1
    ]_vars

\* After a deal, a page without price markup was fetched for a product whose
\* target is zero: the price is None and no second deal was recorded.
C9_Witness ==
  /\ pc = "sources"
  /\ j = 3
  /\ Product_i.target_price = 0
  /\ Len(fetches) = 2
  /\ ~IsNone(response)
  /\ Get(response).status = StatusOK
  /\ Sources[2].platform = Amazon
  /\ LacksAmazonMarkup(Get(response).body)
  /\ price = None
  /\ Len(deals) = 1

\* The deal list follows the order of the attempts that produced it.
RECURSIVE DealsInOrder(_, _)
DealsInOrder(ds, srcs) ==
  IF ds = <<>> THEN TRUE
  ELSE IF srcs = <<>> THEN FALSE
  ELSE LET src == Products[Head(srcs)[1]].urls[Head(srcs)[2]] IN
       IF Head(ds).url = src.url
            /\ Head(ds).name = Products[Head(srcs)[1]].name
       THEN DealsInOrder(Tail(ds), Tail(srcs))
       ELSE DealsInOrder(ds, Tail(srcs))

\* C10: sources are attempted in configuration order, each at most once; the
\* deal list is in that order; and the process has exited only after every
\* configured source was attempted and the notification step sent or skipped.
C10_ExitAfterAllAttempted ==
  /\ IsPrefix(attempts, AllSources)
  /\ DealsInOrder(deals, attempts)
  /\ Exited =>
       /\ attempts = AllSources
       /\ \/ deals = <<>> /\ emailCalls = <<>> /\ telegramCalls = <<>>
          \/ deals # <<>> /\ Len(emailCalls) = 1 /\ Len(telegramCalls) = 1

====
